---- MODULE Spec2Model ----
(***************************************************************************)
(* Model of kafta's `config set-context` command                           *)
(* (pkg/cmd/cli/config/create_context.go).                                 *)
(*                                                                         *)
(* Texts that the code splits (addresses, server lists) are sequences of   *)
(* one-character strings, so that strings.Split is computed; every other   *)
(* text (names, versions, credentials) is a TLA+ string, and len(s) == 0   *)
(* is s = "".                                                              *)
(*                                                                         *)
(* The quiet field of the options has no flag in this file; validate and   *)
(* promptNeeded read it, and an invocation is modelled with either value.  *)
(*                                                                         *)
(* The broker command `get-configs` (NewCmdClusterGetConfig) is modelled    *)
(* as well, with the brokers that kafka.GetBrokers returns as its input.   *)
(***************************************************************************)
EXTENDS Integers, Sequences, FiniteSets, TLC

VARIABLES
    config,     \* o.config.KaftaData: [CurrentContext, Contexts]
    pre,        \* config as it was when the last invocation started
    o,          \* createContextOptions of the last invocation, as run() left it
    base,       \* startingInstance of the last invocation
    context,    \* the value modifyContext returned in the last invocation
    out,        \* [name, exists, err, report] of the last invocation
    events,     \* network and store operations of the last invocation, in order
    cluster,    \* whether the cluster accepted connections during the last invocation
    inp,        \* the last invocation's command line, answering addresses and typed answers
    pc,         \* "idle": no process is running; "done": the last invocation has ended;
                \* "merge": modifyContext alone is being applied
    reports,    \* <<name, report>> of the successful invocations so far, in order
    n,          \* invocations so far
    clusterConfig   \* get-configs: its args, the brokers of the cluster, the
                    \* options' brokerId, the error, and the calls made to the
                    \* cluster (listed: of GetBrokers, described: the ids
                    \* given to DescribeBrokerConfig)

vars == <<config, pre, o, base, context, out, events, cluster, inp, pc, reports, n,
          clusterConfig>>

(***************************************************************************)
(* Bounds                                                                  *)
(***************************************************************************)
MaxInvocations == 2

MaxMerges == 2

\* the most brokers kafka.GetBrokers returns
MaxBrokers == 3

(***************************************************************************)
(* cliflag.StringFlag: a value and whether it was set.                     *)
(***************************************************************************)
NoText == <<>>

Provided(f) == f.provided

Value(f) == f.value

String(f) == f.value

Set(v) == [provided |-> TRUE, value |-> v]

\* the zero StringFlag of a text kept as a string / as characters
Unset == [provided |-> FALSE, value |-> ""]

UnsetText == [provided |-> FALSE, value |-> NoText]

(***************************************************************************)
(* strings.Split                                                           *)
(***************************************************************************)
RECURSIVE SplitFrom(_, _, _)
SplitFrom(s, sep, cur) ==
    IF s = <<>> THEN <<cur>>
    ELSE IF Head(s) = sep THEN <<cur>> \o SplitFrom(Tail(s), sep, <<>>)
    ELSE SplitFrom(Tail(s), sep, Append(cur, Head(s)))

Split(s, sep) == SplitFrom(s, sep, <<>>)

\* the element of a set of one element; Only({F(x) : x \in {e}}) is F of the
\* value of e, with e evaluated once
Only(S) == CHOOSE y \in S : TRUE

(***************************************************************************)
(* sarama.ParseKafkaVersion followed by KafkaVersion.String, on the        *)
(* version texts of the model: three dotted numbers are accepted and       *)
(* printed back without leading zeros, anything else is an error.          *)
(***************************************************************************)
ParseKafkaVersion(s) ==
    CASE s = "1.0.0"  -> [err |-> FALSE, version |-> "1.0.0"]
      [] s = "1.00.0" -> [err |-> FALSE, version |-> "1.0.0"]
      [] s = "2.8.0"  -> [err |-> FALSE, version |-> "2.8.0"]
      [] OTHER        -> [err |-> TRUE, version |-> ""]

(***************************************************************************)
(* configuration.Context and configuration.MakeContext                     *)
(***************************************************************************)
MakeContext ==
    [SchemaRegistry   |-> NoText,
     Ksql             |-> NoText,
     BootstrapServers |-> <<>>,
     KafkaVersion     |-> "",
     UseSASL          |-> FALSE,
     SASL             |-> [Algorithm |-> "", Username |-> "", Password |-> ""],
     TLS              |-> TRUE]

(***************************************************************************)
(* Errors, by their message                                                *)
(***************************************************************************)
NoErr == "nil"
ErrArgs == "Unexpected args"
ErrNoName == "you must specify a non-empty context name or --current"
ErrBoth == "you cannot specify both a context name and --current"
ErrKsql == "failed to connect on ksql"
ErrSchemaRegistry == "failed to connect on schema-registry"
ErrSasl == "user flag is required if SASL is provided"
ErrNoCurrent == "no current context is set"
ErrVersion == "invalid version"
ErrConnect == "could not connect"

(***************************************************************************)
(* testHost: whether address has a port and answers a TCP dial.  up is the *)
(* set of addresses that answer; dialed tells whether the dial was made.   *)
(***************************************************************************)
testHost(address, up) ==
    IF Len(Split(address, ":")) <= 1
    THEN [ok |-> FALSE, dialed |-> FALSE]
    ELSE [ok |-> address \in up, dialed |-> TRUE]

(***************************************************************************)
(* complete: the positional argument and the version flag                  *)
(***************************************************************************)
complete(opts, args) ==
    IF Len(args) > 1 THEN [err |-> ErrArgs, o |-> opts]
    ELSE LET o1 == IF Len(args) = 1 THEN [opts EXCEPT !.name = args[1]] ELSE opts
             o2 == IF Provided(o1.version)
                   THEN [o1 EXCEPT !.parsedVersion = Value(o1.version)]
                   ELSE o1
         IN  [err |-> NoErr, o |-> o2]

(***************************************************************************)
(* validate                                                                *)
(***************************************************************************)
validateSASL_userOnly(opts) ==
    IF Provided(opts.useSASL) /\ opts.quiet
    THEN IF ~Provided(opts.user) THEN ErrSasl ELSE NoErr
    ELSE NoErr

validateSASL(opts) ==
    IF Provided(opts.useSASL) /\ opts.quiet
    THEN IF ~Provided(opts.user) THEN ErrSasl
         ELSE IF ~Provided(opts.password) THEN ErrSasl
         ELSE NoErr
    ELSE NoErr

validateAddresses(opts, up) ==
    LET k  == IF Provided(opts.ksql)
              THEN testHost(String(opts.ksql), up)
              ELSE [ok |-> TRUE, dialed |-> FALSE]
        ke == IF k.dialed THEN <<"dial ksql">> ELSE <<>>
    IN  IF ~k.ok THEN [err |-> ErrKsql, events |-> ke]
        ELSE
          LET s  == IF Provided(opts.schemaRegistry)
                    THEN testHost(String(opts.schemaRegistry), up)
                    ELSE [ok |-> TRUE, dialed |-> FALSE]
              se == IF s.dialed THEN <<"dial schema-registry">> ELSE <<>>
          IN  IF ~s.ok THEN [err |-> ErrSchemaRegistry, events |-> ke \o se]
              ELSE [err |-> NoErr, events |-> ke \o se]

validateName_currentWins(opts) ==
    IF opts.name = "" /\ ~opts.currContext THEN ErrNoName ELSE NoErr

validateName(opts) ==
    IF opts.name = "" /\ ~opts.currContext THEN ErrNoName
    ELSE IF opts.name # "" /\ opts.currContext THEN ErrBoth
    ELSE NoErr

validate(opts, up) ==
    IF validateName(opts) # NoErr THEN [err |-> validateName(opts), events |-> <<>>]
    ELSE LET a == validateAddresses(opts, up)
         IN  IF a.err # NoErr THEN a
             ELSE [err |-> validateSASL(opts), events |-> a.events]

(***************************************************************************)
(* promptNeeded: asks for what neither the flags nor the base give.        *)
(* ans holds what the user types.                                          *)
(***************************************************************************)
promptNeeded(opts, ctx, ans) ==
    IF opts.quiet THEN [o |-> opts, events |-> <<>>]
    ELSE
      LET askServers == ~Provided(opts.bootstrapServers) /\ Len(ctx.BootstrapServers) = 0
          askVersion == ~Provided(opts.version) /\ ctx.KafkaVersion = ""
          askSasl == ~Provided(opts.useSASL)
          sasl == askSasl /\ ans.sasl
          askAlgorithm == sasl /\ ~Provided(opts.algorithm) /\ ctx.SASL.Algorithm = ""
          askUser == sasl /\ ~Provided(opts.user) /\ ctx.SASL.Username = ""
          askPassword == sasl /\ ~Provided(opts.password) /\ ctx.SASL.Password = ""
      IN  [o |-> [opts EXCEPT
                    !.bootstrapServers = IF askServers THEN Set(ans.servers) ELSE @,
                    !.version = IF askVersion THEN Set(ans.version) ELSE @,
                    !.useSASL = IF sasl THEN Set("true") ELSE @,
                    !.algorithm = IF askAlgorithm THEN Set(ans.algorithm) ELSE @,
                    !.user = IF askUser THEN Set(ans.user) ELSE @,
                    !.password = IF askPassword THEN Set(ans.password) ELSE @],
           events |->
               (IF askServers THEN <<"prompt Bootstrap servers">> ELSE <<>>)
            \o (IF askVersion THEN <<"prompt Kafka version">> ELSE <<>>)
            \o (IF askSasl THEN <<"prompt Use SASL">> ELSE <<>>)
            \o (IF askAlgorithm THEN <<"prompt SASL Algorithm">> ELSE <<>>)
            \o (IF askUser THEN <<"prompt User">> ELSE <<>>)
            \o (IF askPassword THEN <<"prompt Password">> ELSE <<>>)]

(***************************************************************************)
(* modifyContext: the merge of the flags onto a copy of the base.  err     *)
(* is the fatal CheckErr of a version that does not parse.                 *)
(***************************************************************************)
mergeKsql(opts, c) ==
    IF Provided(opts.ksql) THEN [c EXCEPT !.Ksql = Value(opts.ksql)] ELSE c

mergeSchemaRegistry(opts, c) ==
    IF Provided(opts.schemaRegistry)
    THEN [c EXCEPT !.SchemaRegistry = Value(opts.schemaRegistry)] ELSE c

mergeServers_append(opts, c) ==
    IF Provided(opts.bootstrapServers)
    THEN [c EXCEPT !.BootstrapServers = @ \o Split(Value(opts.bootstrapServers), ",")]
    ELSE c

mergeServers(opts, c) ==
    IF Provided(opts.bootstrapServers)
    THEN [c EXCEPT !.BootstrapServers = Split(Value(opts.bootstrapServers), ",")]
    ELSE c

mergeVersion(opts, c) ==
    IF opts.parsedVersion # ""
    THEN LET v == ParseKafkaVersion(opts.parsedVersion)
         IN  IF v.err THEN [err |-> ErrVersion, context |-> c]
             ELSE [err |-> NoErr, context |-> [c EXCEPT !.KafkaVersion = v.version]]
    ELSE [err |-> NoErr, context |-> c]

mergeUseSASL_anyCredential(opts, c) ==
    IF Provided(opts.useSASL) \/ Provided(opts.algorithm)
         \/ Provided(opts.user) \/ Provided(opts.password)
    THEN [c EXCEPT !.UseSASL = TRUE] ELSE c

mergeUseSASL_value(opts, c) ==
    IF Provided(opts.useSASL) THEN [c EXCEPT !.UseSASL = (Value(opts.useSASL) = "true")] ELSE c

mergeUseSASL(opts, c) ==
    IF Provided(opts.useSASL) THEN [c EXCEPT !.UseSASL = TRUE] ELSE c

mergeAlgorithm(opts, c) ==
    IF Provided(opts.algorithm)
    THEN [c EXCEPT !.SASL.Algorithm = Value(opts.algorithm)] ELSE c

mergeUser_always(opts, c) == [c EXCEPT !.SASL.Username = Value(opts.user)]

mergeUser(opts, c) ==
    IF Provided(opts.user) THEN [c EXCEPT !.SASL.Username = Value(opts.user)] ELSE c

mergePassword(opts, c) ==
    IF Provided(opts.password)
    THEN [c EXCEPT !.SASL.Password = Value(opts.password)] ELSE c

mergeTLS(opts, c) == [c EXCEPT !.TLS = opts.useTLS]

modifyContext(opts, ctx) ==
    Only({ IF v.err # NoErr THEN [err |-> v.err, context |-> ctx]
           ELSE [err |-> NoErr,
                 context |-> mergeTLS(opts, mergePassword(opts, mergeUser(opts,
                                 mergeAlgorithm(opts, mergeUseSASL(opts, v.context)))))] :
           v \in {mergeVersion(opts, mergeServers(opts,
                      mergeSchemaRegistry(opts, mergeKsql(opts, ctx))))} })

(***************************************************************************)
(* checkConnection: a connection to the cluster, if the servers were given *)
(***************************************************************************)
checkConnection_ignoreError(opts, ctx, clusterUp) ==
    IF Provided(opts.bootstrapServers)
    THEN [err |-> NoErr, events |-> <<"connect">>]
    ELSE [err |-> NoErr, events |-> <<>>]

checkConnection_always(opts, ctx, clusterUp) ==
    [err |-> IF clusterUp THEN NoErr ELSE ErrConnect, events |-> <<"connect">>]

checkConnection(opts, ctx, clusterUp) ==
    IF Provided(opts.bootstrapServers)
    THEN [err |-> IF clusterUp THEN NoErr ELSE ErrConnect, events |-> <<"connect">>]
    ELSE [err |-> NoErr, events |-> <<>>]

(***************************************************************************)
(* run                                                                     *)
(***************************************************************************)
Failed(cfg, opts, err, ev) ==
    [config |-> cfg, o |-> opts, base |-> MakeContext, context |-> MakeContext,
     name |-> "", exists |-> FALSE, err |-> err, events |-> ev]

SetEntry_replaceAll(contexts, name, ctx) == [k \in {name} |-> ctx]

SetEntry(contexts, name, ctx) ==
    [k \in DOMAIN contexts \cup {name} |-> IF k = name THEN ctx ELSE contexts[k]]

targetName_ignoreCurrent(cfg, opts) == [err |-> NoErr, name |-> opts.name]

\* the name run() works on: the argument, or with --current the current context
targetName(cfg, opts) ==
    IF opts.currContext
    THEN IF cfg.CurrentContext = ""
         THEN [err |-> ErrNoCurrent, name |-> ""]
         ELSE [err |-> NoErr, name |-> cfg.CurrentContext]
    ELSE [err |-> NoErr, name |-> opts.name]

\* the starting context of run(): the stored one, or a new one
startingInstance(cfg, name) ==
    IF name \in DOMAIN cfg.Contexts THEN cfg.Contexts[name] ELSE MakeContext

\* the end of run() with the store written before the connection is checked
finish_writeBeforeCheck(cfg, name, start, opts, m, c, ev) ==
    IF m.err # NoErr
    THEN [Failed(cfg, opts, m.err, ev) EXCEPT !.base = start]
    ELSE IF c.err # NoErr
    THEN [Failed([cfg EXCEPT !.Contexts = SetEntry(@, name, m.context)],
                 opts, c.err, ev \o <<"persist">> \o c.events)
            EXCEPT !.base = start, !.context = m.context]
    ELSE [config  |-> [cfg EXCEPT !.Contexts = SetEntry(@, name, m.context)],
          o       |-> opts,
          base    |-> start,
          context |-> m.context,
          name    |-> name,
          exists  |-> name \in DOMAIN cfg.Contexts,
          err     |-> NoErr,
          events  |-> ev \o <<"persist">> \o c.events]

\* the end of run(): m is what modifyContext returned, c what checkConnection
\* returned; the store is written when neither failed
finish(cfg, name, start, opts, m, c, ev) ==
    IF m.err # NoErr
    THEN [Failed(cfg, opts, m.err, ev) EXCEPT !.base = start]
    ELSE IF c.err # NoErr
    THEN [Failed(cfg, opts, c.err, ev \o c.events)
            EXCEPT !.base = start, !.context = m.context]
    ELSE [config  |-> [cfg EXCEPT !.Contexts = SetEntry(@, name, m.context)],
          o       |-> opts,
          base    |-> start,
          context |-> m.context,
          name    |-> name,
          exists  |-> name \in DOMAIN cfg.Contexts,
          err     |-> NoErr,
          events  |-> ev \o c.events \o <<"persist">>]

\* run() from modifyContext on, with modifyContext working on the stored
\* instance itself instead of on a copy of it
merged_inPlace(cfg, name, start, p, ev, clusterUp) ==
    Only({ Only({ finish(IF name \in DOMAIN cfg.Contexts
                         THEN [cfg EXCEPT !.Contexts[name] = m.context] ELSE cfg,
                         name, m.context, p.o, m, c, ev \o p.events) :
                  c \in {checkConnection(p.o, m.context, clusterUp)} }) :
           m \in {modifyContext(p.o, start)} })

\* run() from modifyContext on: p is what promptNeeded returned
merged(cfg, name, start, p, ev, clusterUp) ==
    Only({ Only({ finish(cfg, name, start, p.o, m, c, ev \o p.events) :
                  c \in {checkConnection(p.o, m.context, clusterUp)} }) :
           m \in {modifyContext(p.o, start)} })

\* run() from the lookup of the name on
loaded(cfg, opts, name, ev, clusterUp, ans) ==
    Only({ Only({ merged(cfg, name, start, p, ev, clusterUp) :
                  p \in {promptNeeded(opts, start, ans)} }) :
           start \in {startingInstance(cfg, name)} })

run(cfg, opts, up, clusterUp, ans) ==
    Only({ IF v.err # NoErr THEN Failed(cfg, opts, v.err, v.events)
           ELSE Only({ IF t.err # NoErr THEN Failed(cfg, opts, t.err, v.events)
                       ELSE loaded(cfg, opts, t.name, v.events, clusterUp, ans) :
                       t \in {targetName(cfg, opts)} }) :
           v \in {validate(opts, up)} })

(***************************************************************************)
(* get-configs: strconv.FormatInt(i, 10) of a broker id                    *)
(***************************************************************************)
Digit(d) ==
    CASE d = 0 -> "0" [] d = 1 -> "1" [] d = 2 -> "2" [] d = 3 -> "3" [] d = 4 -> "4"
      [] d = 5 -> "5" [] d = 6 -> "6" [] d = 7 -> "7" [] d = 8 -> "8" [] d = 9 -> "9"

RECURSIVE FormatInt(_)
FormatInt(i) == IF i < 10 THEN Digit(i) ELSE FormatInt(i \div 10) \o Digit(i % 10)

ErrNoController == "Impossible find BrokerId coordinator"

\* the clusterConfig options as NewCmdClusterGetConfig makes them
NoClusterConfig ==
    [args |-> <<>>, brokers |-> <<>>, brokerId |-> "", err |-> NoErr,
     listed |-> 0, described |-> <<>>]

\* the loop of defaultValue over the brokers, without its break
RECURSIVE rangeBrokers_noBreak(_, _)
rangeBrokers_noBreak(brokers, brokerId) ==
    IF brokers = <<>> THEN brokerId
    ELSE rangeBrokers_noBreak(Tail(brokers),
                              IF Head(brokers).IsController
                              THEN FormatInt(Head(brokers).ID) ELSE brokerId)

\* the loop of defaultValue over the brokers: the brokerId it leaves
RECURSIVE rangeBrokers(_, _)
rangeBrokers(brokers, brokerId) ==
    IF brokers = <<>> THEN brokerId
    ELSE IF Head(brokers).IsController THEN FormatInt(Head(brokers).ID)
    ELSE rangeBrokers(Tail(brokers), brokerId)

defaultValue(c) ==
    IF Len(c.args) = 0
    THEN Only({ [c EXCEPT !.listed = @ + 1,
                          !.brokerId = id,
                          !.err = IF id = "" THEN ErrNoController ELSE NoErr] :
                id \in {rangeBrokers(c.brokers, c.brokerId)} })
    ELSE [c EXCEPT !.brokerId = c.args[1]]

\* run of clusterConfig: the configuration of o.brokerId is asked for
clusterConfigRun(c) == [c EXCEPT !.described = Append(@, c.brokerId)]

\* the Run closure of get-configs
NewCmdClusterGetConfig(c) ==
    Only({ IF d.err # NoErr THEN d ELSE clusterConfigRun(d) : d \in {defaultValue(c)} })

(***************************************************************************)
(* The command line: what the flags of one invocation can be               *)
(***************************************************************************)
Args == {<<>>, <<"">>, <<"a">>, <<"b">>, <<"a", "b">>}

KsqlFlags == {UnsetText, Set(<<"k">>), Set(<<"k", ":", "1">>)}

SchemaRegistryFlags == {UnsetText, Set(<<"s">>), Set(<<"s", ":", "1">>)}

ServerFlags == {UnsetText, Set(<<"x", ",", "y">>)}

VersionFlags == {Unset, Set(""), Set("1.00.0"), Set("bad")}

SaslFlags == {Unset, Set("true"), Set("false")}

AlgorithmFlags == {Unset, Set("PLAIN")}

UserFlags == {Unset, Set("u")}

PasswordFlags == {Unset, Set("p")}

CommandLines ==
    [args : Args, current : BOOLEAN, quiet : BOOLEAN, tls : BOOLEAN,
     ksql : KsqlFlags, schemaRegistry : SchemaRegistryFlags, server : ServerFlags,
     version : VersionFlags, sasl : SaslFlags, algorithm : AlgorithmFlags,
     username : UserFlags, password : PasswordFlags]

\* the command lines of the runs that follow one another
FewCommandLines ==
    [args : {<<>>, <<"a">>, <<"b">>}, current : BOOLEAN, quiet : BOOLEAN, tls : {TRUE},
     ksql : {UnsetText}, schemaRegistry : {UnsetText}, server : ServerFlags,
     version : {Unset}, sasl : SaslFlags, algorithm : {Unset},
     username : UserFlags, password : {Unset}]

\* the addresses that may answer a dial
Hosts == {<<"k", ":", "1">>, <<"s", ":", "1">>}

\* what the user answers to the prompts
Answers ==
    [servers : {<<"z">>}, version : {"2.8.0"}, sasl : BOOLEAN,
     algorithm : {"SCRAM"}, user : {"v"}, password : {"w"}]

\* the options as NewCmdConfigSetContext registers them and cobra fills them
createContextOptions(line) ==
    [name             |-> "",
     currContext      |-> line.current,
     schemaRegistry   |-> line.schemaRegistry,
     ksql             |-> line.ksql,
     bootstrapServers |-> line.server,
     version          |-> line.version,
     user             |-> line.username,
     password         |-> line.password,
     useSASL          |-> line.sasl,
     algorithm        |-> line.algorithm,
     useTLS           |-> line.tls,
     parsedVersion    |-> "",
     quiet            |-> line.quiet]

NoLine ==
    [args |-> <<>>, current |-> FALSE, quiet |-> FALSE, tls |-> TRUE,
     ksql |-> UnsetText, schemaRegistry |-> UnsetText, server |-> UnsetText,
     version |-> Unset, sasl |-> Unset, algorithm |-> Unset,
     username |-> Unset, password |-> Unset]

(***************************************************************************)
(* The stores an invocation can start from                                 *)
(***************************************************************************)
FullContext ==
    [SchemaRegistry   |-> <<"r", ":", "8">>,
     Ksql             |-> <<"q", ":", "8">>,
     BootstrapServers |-> <<<<"b">>>>,
     KafkaVersion     |-> "1.0.0",
     UseSASL          |-> TRUE,
     SASL             |-> [Algorithm |-> "SCRAM", Username |-> "admin", Password |-> "secret"],
     TLS              |-> FALSE]

PlainContext ==
    [MakeContext EXCEPT !.BootstrapServers = <<<<"c">>>>, !.KafkaVersion = "2.8.0"]

InitStores ==
    { [CurrentContext |-> "", Contexts |-> <<>>],
      [CurrentContext |-> "a", Contexts |-> [k \in {"a"} |-> FullContext]],
      [CurrentContext |-> "", Contexts |-> [k \in {"a", "b"} |->
                                               IF k = "a" THEN PlainContext ELSE FullContext]] }

NoAnswer ==
    [servers |-> <<"z">>, version |-> "2.8.0", sasl |-> FALSE,
     algorithm |-> "SCRAM", user |-> "v", password |-> "w"]

NoInput == [line |-> NoLine, up |-> {}, ans |-> NoAnswer]

NoOut == [name |-> "", exists |-> FALSE, err |-> NoErr, report |-> "none"]

Init ==
    /\ config \in InitStores
    /\ pre = config
    /\ o = createContextOptions(NoLine)
    /\ base = MakeContext
    /\ context = MakeContext
    /\ out = NoOut
    /\ events = <<>>
    /\ cluster = TRUE
    /\ inp = NoInput
    /\ pc = "idle"
    /\ reports = <<>>
    /\ n = 0
    /\ clusterConfig = NoClusterConfig

(***************************************************************************)
(* NewCmdConfigSetContext: the Run closure of the command, given the       *)
(* command line and what the network and the user answer.                  *)
(***************************************************************************)
Report_inverted(r) ==
    IF r.err # NoErr THEN "none" ELSE IF r.exists THEN "created" ELSE "modified"

Report(r) ==
    IF r.err # NoErr THEN "none" ELSE IF r.exists THEN "modified" ELSE "created"

NewCmdConfigSetContext(cfg, line, up, clusterUp, ans) ==
    Only({ Only({ r @@ [report |-> Report(r)] :
                  r \in {IF c.err # NoErr THEN Failed(cfg, c.o, c.err, <<>>)
                         ELSE run(cfg, c.o, up, clusterUp, ans)} }) :
           c \in {complete(createContextOptions(line), line.args)} })

\* a dial or a prompt that is not made has no answer to choose
Dials(line) == SUBSET ({Value(line.ksql), Value(line.schemaRegistry)} \cap Hosts)

Typed(line) == IF line.quiet \/ Provided(line.sasl) THEN {a \in Answers : ~a.sasl} ELSE Answers

Invocation(lines) ==
    /\ pc = "idle"
    /\ \E line \in lines, clusterUp \in BOOLEAN :
         \E up \in Dials(line), ans \in Typed(line) :
           \E r \in {NewCmdConfigSetContext(config, line, up, clusterUp, ans)} :
               /\ pre' = config
               /\ config' = r.config
               /\ o' = r.o
               /\ base' = r.base
               /\ context' = r.context
               /\ out' = [name |-> r.name, exists |-> r.exists, err |-> r.err,
                          report |-> r.report]
               /\ events' = r.events
               /\ cluster' = clusterUp
               /\ inp' = [line |-> line, up |-> up, ans |-> ans]
               /\ pc' = "done"
               /\ reports' = IF r.err = NoErr
                             THEN Append(reports, <<r.name, r.report>>) ELSE reports
               /\ n' = n + 1
               /\ UNCHANGED clusterConfig

\* one process: any command line
RunOnce == n = 0 /\ Invocation(CommandLines)

\* one process after another on the saved store
RunAgain == n < MaxInvocations /\ Invocation(FewCommandLines)

\* the process ends: only the store outlives it
Exit ==
    /\ pc = "done"
    /\ pc' = "idle"
    /\ pre' = config
    /\ o' = createContextOptions(NoLine)
    /\ base' = MakeContext
    /\ context' = MakeContext
    /\ out' = NoOut
    /\ events' = <<>>
    /\ cluster' = TRUE
    /\ inp' = NoInput
    /\ UNCHANGED <<config, reports, n, clusterConfig>>

Next == RunOnce

Spec == Init /\ [][Next]_vars

NextSeq == RunAgain \/ Exit

SpecSeq == Init /\ [][NextSeq]_vars

(***************************************************************************)
(* modifyContext on its own: the options are those that reach it in run(), *)
(* after complete and promptNeeded, and it is applied again to its result. *)
(***************************************************************************)
Bases == {MakeContext, PlainContext, FullContext}

MergeLines == {line \in CommandLines : line.args = <<"a">> /\ ~line.current}

InitMerge ==
    /\ base \in Bases
    /\ \E line \in MergeLines :
         \E ans \in Typed(line) :
           /\ inp = [line |-> line, up |-> {}, ans |-> ans]
           /\ o = promptNeeded(complete(createContextOptions(line), line.args).o, base, ans).o
    /\ context = base
    /\ config = [CurrentContext |-> "", Contexts |-> <<>>]
    /\ pre = config
    /\ out = NoOut
    /\ events = <<>>
    /\ cluster = TRUE
    /\ pc = "merge"
    /\ reports = <<>>
    /\ n = 0
    /\ clusterConfig = NoClusterConfig

Merge ==
    /\ pc = "merge"
    /\ n < MaxMerges
    /\ \E m \in {modifyContext(o, context)} :
           /\ m.err = NoErr
           /\ context' = m.context
    /\ n' = n + 1
    /\ UNCHANGED <<config, pre, o, base, out, events, cluster, inp, pc, reports,
                   clusterConfig>>

NextMerge == Merge

SpecMerge == InitMerge /\ [][NextMerge]_vars

(***************************************************************************)
(* get-configs on its own: any argument list, any list of brokers          *)
(***************************************************************************)
BrokerArgs == {<<>>, <<"">>, <<"1">>, <<"7">>, <<"1", "2">>}

BrokerIds == {0, 1, 2, 10}

BrokerSummary == [ID : BrokerIds, IsController : BOOLEAN]

BrokerLists == UNION {[1..l -> BrokerSummary] : l \in 0..MaxBrokers}

InitBroker ==
    /\ clusterConfig \in {[NoClusterConfig EXCEPT !.args = a, !.brokers = b] :
                             a \in BrokerArgs, b \in BrokerLists}
    /\ config = [CurrentContext |-> "", Contexts |-> <<>>]
    /\ pre = config
    /\ o = createContextOptions(NoLine)
    /\ base = MakeContext
    /\ context = MakeContext
    /\ out = NoOut
    /\ events = <<>>
    /\ cluster = TRUE
    /\ inp = NoInput
    /\ pc = "get-configs"
    /\ reports = <<>>
    /\ n = 0

GetConfigs ==
    /\ pc = "get-configs"
    /\ clusterConfig' = NewCmdClusterGetConfig(clusterConfig)
    /\ pc' = "get-configs done"
    /\ UNCHANGED <<config, pre, o, base, context, out, events, cluster, inp, reports, n>>

NextBroker == GetConfigs

SpecBroker == InitBroker /\ [][NextBroker]_vars

(***************************************************************************)
(* Properties                                                              *)
(***************************************************************************)
Has(e) == \E i \in DOMAIN events : events[i] = e

Before(e1, e2) == \E i, j \in DOMAIN events : i < j /\ events[i] = e1 /\ events[j] = e2

Succeeded == pc = "done" /\ out.err = NoErr

\* the context the last invocation started from, read from the store as it was
Starting == IF out.name \in DOMAIN pre.Contexts THEN pre.Contexts[out.name] ELSE MakeContext

\* C1: an invocation that fails leaves the store as it was; one that succeeds
\* changes nothing but the entry of the target name, which then holds the
\* merge of the options onto the starting context.
C1_AllOrNothing ==
    pc = "done" =>
      /\ out.err # NoErr => config = pre
      /\ out.err = NoErr =>
           /\ config.CurrentContext = pre.CurrentContext
           /\ DOMAIN config.Contexts = DOMAIN pre.Contexts \cup {out.name}
           /\ \A k \in DOMAIN pre.Contexts \ {out.name} :
                  config.Contexts[k] = pre.Contexts[k]
           /\ config.Contexts[out.name] = modifyContext(o, Starting).context

\* an invocation that merged a change onto a stored context of a store with
\* another context in it, and then failed to connect
C1_Witness ==
    /\ pc = "done"
    /\ ~o.quiet
    /\ out.err = ErrConnect
    /\ Cardinality(DOMAIN pre.Contexts) = 2
    /\ context # base
    /\ config = pre

\* C2: when the bootstrap servers are overridden, the store is written only
\* after a connection to the cluster was opened and succeeded; when that
\* connection fails the command fails and the store is as it was.
C2_ConnectivityGating ==
    (pc = "done" /\ Provided(o.bootstrapServers)) =>
      /\ Has("persist") => (cluster /\ Before("connect", "persist"))
      /\ config # pre => Has("persist")
      /\ (Has("connect") /\ ~cluster) => (out.err = ErrConnect /\ config = pre)

C2_Witness ==
    /\ pc = "done"
    /\ ~o.quiet
    /\ Provided(inp.line.server)
    /\ ~cluster
    /\ Has("connect")
    /\ out.err = ErrConnect

\* C3: when the bootstrap servers are not part of the update no connection to
\* the cluster is opened, and the same invocation with the cluster's
\* reachability reversed ends with the same error, report and store.
C3_NoConnectionWithoutServers ==
    (pc = "done" /\ ~Provided(o.bootstrapServers)) =>
      /\ ~Has("connect")
      /\ \E r \in {NewCmdConfigSetContext(pre, inp.line, inp.up, ~cluster, inp.ans)} :
             r.err = out.err /\ r.report = out.report /\ r.config = config

\* an update of the user name of a stored context succeeds with the cluster down
C3_Witness ==
    /\ Succeeded
    /\ ~o.quiet
    /\ ~cluster
    /\ ~Provided(o.bootstrapServers)
    /\ out.exists
    /\ Provided(o.user)
    /\ config # pre

\* C4: merging the same options a second time gives what merging them once gave.
C4_MergeIdempotent ==
    (pc = "merge" /\ n >= 2) => context = modifyContext(o, base).context

\* a second merge of options that changed the base
C4_Witness ==
    /\ pc = "merge"
    /\ ~o.quiet
    /\ n = 2
    /\ context # base
    /\ Provided(o.bootstrapServers)
    /\ o.parsedVersion # ""

NoOverrides(opts) ==
    /\ ~Provided(opts.ksql)
    /\ ~Provided(opts.schemaRegistry)
    /\ ~Provided(opts.bootstrapServers)
    /\ ~Provided(opts.version)
    /\ ~Provided(opts.useSASL)
    /\ ~Provided(opts.algorithm)
    /\ ~Provided(opts.user)
    /\ ~Provided(opts.password)
    /\ opts.useTLS

\* C5: merging with no override provided (no flag given, --tls left at its
\* default) returns a context equal to the base in every field.
C5_MergeNonDestructive ==
    (pc = "merge" /\ n >= 1 /\ NoOverrides(o)) => context = base

\* C6: a field with tri-state tracking whose override is not provided has, in
\* the merged context and in the stored one, the value it had in the starting
\* context.
C6_Kept(c) ==
    /\ ~Provided(o.bootstrapServers) => c.BootstrapServers = Starting.BootstrapServers
    /\ ~Provided(o.version) => c.KafkaVersion = Starting.KafkaVersion
    /\ ~Provided(o.schemaRegistry) => c.SchemaRegistry = Starting.SchemaRegistry
    /\ ~Provided(o.ksql) => c.Ksql = Starting.Ksql
    /\ ~Provided(o.useSASL) => c.UseSASL = Starting.UseSASL
    /\ ~Provided(o.algorithm) => c.SASL.Algorithm = Starting.SASL.Algorithm
    /\ ~Provided(o.user) => c.SASL.Username = Starting.SASL.Username
    /\ ~Provided(o.password) => c.SASL.Password = Starting.SASL.Password

C6_TriStatePreserved ==
    Succeeded => (C6_Kept(context) /\ C6_Kept(config.Contexts[out.name]))

\* only the user name is given for a stored context whose every field is set
C6_Witness ==
    /\ Succeeded
    /\ ~o.quiet
    /\ out.exists
    /\ Starting = FullContext
    /\ Provided(o.user)
    /\ ~Provided(o.ksql) /\ ~Provided(o.schemaRegistry) /\ ~Provided(o.bootstrapServers)
    /\ ~Provided(o.version) /\ ~Provided(o.useSASL) /\ ~Provided(o.algorithm)
    /\ ~Provided(o.password)

\* C7: a successful invocation reports "modified" exactly when the target name
\* was in the store before it, and otherwise "created", the stored context being
\* the merge onto the all-default context; so of the successful invocations on
\* one name only the first can report "created".
C7_CreatedOrModified ==
    /\ Succeeded =>
         /\ out.report = "modified" <=> out.name \in DOMAIN pre.Contexts
         /\ out.report = "created" <=> out.name \notin DOMAIN pre.Contexts
         /\ out.report = "created" =>
                config.Contexts[out.name] = modifyContext(o, MakeContext).context
    /\ \A i, j \in DOMAIN reports :
         (i < j /\ reports[i][1] = reports[j][1]) => reports[j][2] = "modified"

\* a name is created and then modified
C7_Witness ==
    /\ Succeeded
    /\ ~o.quiet
    /\ Len(reports) = 2
    /\ reports[1] = <<out.name, "created">>
    /\ reports[2] = <<out.name, "modified">>

GivenName == Len(inp.line.args) = 1 /\ inp.line.args[1] # ""

\* C8: with both a name and --current, or with neither, the command fails with
\* the matching error and nothing is written; with exactly one of them it does
\* not fail with either of these errors.
C8_NameXorCurrent ==
    (pc = "done" /\ Len(inp.line.args) <= 1) =>
      /\ (GivenName /\ inp.line.current) =>
             (out.err = ErrBoth /\ config = pre /\ ~Has("persist"))
      /\ (~GivenName /\ ~inp.line.current) =>
             (out.err = ErrNoName /\ config = pre /\ ~Has("persist"))
      /\ (GivenName # inp.line.current) => out.err \notin {ErrBoth, ErrNoName}

C8_Witness ==
    /\ pc = "done"
    /\ GivenName
    /\ inp.line.current
    /\ out.err = ErrBoth
    /\ pre.CurrentContext # ""

ValidationErrors == {ErrArgs, ErrNoName, ErrBoth, ErrKsql, ErrSchemaRegistry, ErrSasl}

\* with --current and a current context, the name written and reported is it
C9_CurrentIsTarget ==
    (pre.CurrentContext # "" /\ out.err = NoErr) =>
      /\ out.name = pre.CurrentContext
      /\ config.Contexts[pre.CurrentContext] = context
      /\ \A k \in DOMAIN config.Contexts \ {pre.CurrentContext} :
             k \in DOMAIN pre.Contexts /\ config.Contexts[k] = pre.Contexts[k]

C10_CurrentExists ==
    config.CurrentContext = "" \/ config.CurrentContext \in DOMAIN config.Contexts

\* two successful invocations, one of them creating a context, in a store with
\* a current context
C10_Witness ==
    /\ Succeeded
    /\ ~o.quiet
    /\ Len(reports) = 2
    /\ config.CurrentContext = "a"
    /\ reports[1] = <<"b", "created">>
    /\ reports[2][1] = "a"

NoPort(f) == Provided(f) /\ Len(Split(Value(f), ":")) <= 1

Dialed == Has("dial ksql") \/ Has("dial schema-registry")

\* C11: when a provided ksql or schema-registry address has no ":port" part
\* the command fails in validation, nothing is written, and no address has been
\* dialed in that invocation, whether or not the other address is well formed.
C11_AddressSyntaxGate ==
    (pc = "done" /\ (NoPort(inp.line.ksql) \/ NoPort(inp.line.schemaRegistry))) =>
      /\ out.err \in ValidationErrors
      /\ config = pre
      /\ ~Dialed

\* the name, the addresses and the version of the command line are acceptable
\* and every address given answers
ElseValid ==
    /\ Len(inp.line.args) <= 1
    /\ GivenName # inp.line.current
    /\ inp.line.current => pre.CurrentContext # ""
    /\ Provided(inp.line.ksql) => Value(inp.line.ksql) \in inp.up
    /\ Provided(inp.line.schemaRegistry) => Value(inp.line.schemaRegistry) \in inp.up
    /\ Value(inp.line.version) # "" => ~ParseKafkaVersion(Value(inp.line.version)).err

\* C12: in quiet mode with --sasl given, a command line without --username or
\* without --password fails with a validation error (the SASL one when nothing
\* else is wrong) and writes nothing; with both, an otherwise valid command
\* line and a reachable cluster it succeeds and the stored context has UseSASL
\* true.
C12_QuietSaslGate ==
    (pc = "done" /\ inp.line.quiet /\ Provided(inp.line.sasl)) =>
      /\ (~Provided(inp.line.username) \/ ~Provided(inp.line.password)) =>
           /\ out.err \in ValidationErrors
           /\ ElseValid => out.err = ErrSasl
           /\ config = pre
           /\ ~Has("persist")
      /\ (Provided(inp.line.username) /\ Provided(inp.line.password)
            /\ cluster /\ ElseValid) =>
           /\ out.err = NoErr
           /\ Has("persist")
           /\ config.Contexts[out.name].UseSASL

\* --sasl --username in quiet mode, without --password, on a stored context
C12_Witness ==
    /\ pc = "done"
    /\ inp.line.quiet
    /\ Provided(inp.line.sasl)
    /\ Provided(inp.line.username)
    /\ ~Provided(inp.line.password)
    /\ ElseValid
    /\ inp.line.args = <<"a">>
    /\ "a" \in DOMAIN pre.Contexts
    /\ out.err = ErrSasl

Controllers == {i \in DOMAIN clusterConfig.brokers : clusterConfig.brokers[i].IsController}

FirstController == CHOOSE i \in Controllers : \A j \in Controllers : i <= j

\* C13: get-configs without an argument asks for the configuration of the
\* first broker of the list that is the controller, and of no other; when no
\* broker of the list is the controller it fails and asks for no
\* configuration; with an argument it asks for the configuration of that id
\* and does not list the brokers.
C13_TargetBroker ==
    pc = "get-configs done" =>
      /\ (clusterConfig.args = <<>> /\ Controllers # {}) =>
           /\ clusterConfig.err = NoErr
           /\ clusterConfig.listed = 1
           /\ clusterConfig.described =
                  <<FormatInt(clusterConfig.brokers[FirstController].ID)>>
      /\ (clusterConfig.args = <<>> /\ Controllers = {}) =>
           /\ clusterConfig.err # NoErr
           /\ clusterConfig.described = <<>>
      /\ clusterConfig.args # <<>> =>
           /\ clusterConfig.err = NoErr
           /\ clusterConfig.listed = 0
           /\ clusterConfig.described = <<clusterConfig.args[1]>>

\* no argument, and the second and third brokers of the list are both
\* controllers: the second one's configuration is asked for
C13_Witness ==
    /\ pc = "get-configs done"
    /\ clusterConfig.args = <<>>
    /\ Controllers = {2, 3}
    /\ clusterConfig.brokers[2].ID = 10
    /\ clusterConfig.brokers[3].ID = 2
    /\ clusterConfig.described = <<"10">>

\* the version text as the context keeps it: the empty text, or the parsed
\* version printed back
Kept(version) == IF version = "" THEN "" ELSE ParseKafkaVersion(version).version

\* C14: after a merge, every field with tri-state tracking whose flag was given
\* on the command line, with an empty value too, holds the flag's value; so a
\* --version given empty leaves the merged context with an empty version.
C14_ProvidedReplaces ==
    (pc = "merge" /\ n >= 1) =>
      /\ Provided(inp.line.ksql) => context.Ksql = Value(inp.line.ksql)
      /\ Provided(inp.line.schemaRegistry) =>
             context.SchemaRegistry = Value(inp.line.schemaRegistry)
      /\ Provided(inp.line.server) =>
             context.BootstrapServers = Split(Value(inp.line.server), ",")
      /\ Provided(inp.line.version) =>
             context.KafkaVersion = Kept(Value(inp.line.version))
      /\ Provided(inp.line.algorithm) =>
             context.SASL.Algorithm = Value(inp.line.algorithm)
      /\ Provided(inp.line.username) => context.SASL.Username = Value(inp.line.username)
      /\ Provided(inp.line.password) => context.SASL.Password = Value(inp.line.password)

\* C15 (as amended): after a merge whose options have the SASL flag provided,
\* with any value, the merged context has UseSASL true; after a merge whose
\* options do not have it, the algorithm, the user name or the password
\* provided or not, UseSASL is as it was in the base.
C15_SaslFlagSets ==
    (pc = "merge" /\ n >= 1) =>
      /\ Provided(o.useSASL) => context.UseSASL
      /\ ~Provided(o.useSASL) => context.UseSASL = base.UseSASL

\* --sasl=false alone merged onto a context without SASL
C15_Witness ==
    /\ pc = "merge"
    /\ n >= 1
    /\ inp.line.sasl = Set("false")
    /\ ~Provided(o.algorithm) /\ ~Provided(o.user) /\ ~Provided(o.password)
    /\ ~base.UseSASL
    /\ context.UseSASL

\* C15 (as stated): after a merge whose options have the SASL flag, the
\* algorithm, the user name or the password provided, any one of them alone,
\* the merged context has UseSASL true.
C15_SaslLatchSet ==
    (pc = "merge" /\ n >= 1
       /\ (Provided(o.useSASL) \/ Provided(o.algorithm)
             \/ Provided(o.user) \/ Provided(o.password))) =>
      context.UseSASL

\* C16: a stored context with UseSASL true is still stored, with UseSASL true,
\* after any invocation, whatever its flags.
C16_SaslLatchHolds ==
    [][\A k \in DOMAIN config.Contexts :
          config.Contexts[k].UseSASL =>
              (k \in DOMAIN config'.Contexts /\ config'.Contexts[k].UseSASL)]_vars

\* in an empty store "b" is created with SASL and then modified with --sasl=false
C16_Witness ==
    /\ Succeeded
    /\ ~o.quiet
    /\ DOMAIN config.Contexts = {"b"}
    /\ reports = << <<"b", "created">>, <<"b", "modified">> >>
    /\ inp.line.sasl = Set("false")
    /\ pre.Contexts["b"].UseSASL
    /\ config.Contexts["b"].UseSASL

\* the name run() works on, for a command line that passes validation
Target == IF inp.line.current THEN pre.CurrentContext ELSE inp.line.args[1]

\* the errors of an invocation that ends after modifyContext was called
AfterMerge == {NoErr, ErrVersion, ErrConnect}

\* C17: in an invocation that reaches the merge, the starting context is, after
\* the merge, what the store held under the target name when the invocation
\* began (or the default context), and when the invocation fails after the
\* merge the store still holds that context, servers and SASL record
\* included, under the target name, and no new name.
C17_CopyOnWrite ==
    (pc = "done" /\ out.err \in AfterMerge) =>
      /\ base = IF Target \in DOMAIN pre.Contexts THEN pre.Contexts[Target]
                ELSE MakeContext
      /\ out.err # NoErr =>
           /\ DOMAIN config.Contexts = DOMAIN pre.Contexts
           /\ Target \in DOMAIN pre.Contexts =>
                  config.Contexts[Target] = pre.Contexts[Target]

\* servers and credentials merged onto a stored context, and the connection
\* to the cluster then fails
C17_Witness ==
    /\ pc = "done"
    /\ ~o.quiet
    /\ out.err = ErrConnect
    /\ Target \in DOMAIN pre.Contexts
    /\ pre.Contexts[Target] = FullContext
    /\ context.BootstrapServers # FullContext.BootstrapServers
    /\ context.SASL # FullContext.SASL
    /\ config.Contexts[Target] = FullContext

Prompts ==
    {"prompt Bootstrap servers", "prompt Kafka version", "prompt Use SASL",
     "prompt SASL Algorithm", "prompt User", "prompt Password"}

\* SASL is in use: asked for by the flag, stored in the base, or confirmed
SaslInUse ==
    Provided(inp.line.sasl) \/ base.UseSASL \/ (Has("prompt Use SASL") /\ inp.ans.sasl)

\* C18: in an invocation that reaches the prompts, not quiet, each of bootstrap
\* servers, version and SASL usage is asked for exactly when neither the
\* command line nor the starting context has it, and, SASL being in use, so
\* are algorithm, user name and password; in quiet mode nothing is asked and
\* the options are as complete() left them.
C18_PromptCondition ==
    (pc = "done" /\ out.err \in AfterMerge) =>
      /\ inp.line.quiet =>
           /\ \A i \in DOMAIN events : events[i] \notin Prompts
           /\ o = complete(createContextOptions(inp.line), inp.line.args).o
      /\ ~inp.line.quiet =>
           /\ Has("prompt Bootstrap servers") <=>
                  (~Provided(inp.line.server) /\ base.BootstrapServers = <<>>)
           /\ Has("prompt Kafka version") <=>
                  (~Provided(inp.line.version) /\ base.KafkaVersion = "")
           /\ Has("prompt Use SASL") <=>
                  (~Provided(inp.line.sasl) /\ ~base.UseSASL)
           /\ Has("prompt SASL Algorithm") <=>
                  (SaslInUse /\ ~Provided(inp.line.algorithm) /\ base.SASL.Algorithm = "")
           /\ Has("prompt User") <=>
                  (SaslInUse /\ ~Provided(inp.line.username) /\ base.SASL.Username = "")
           /\ Has("prompt Password") <=>
                  (SaslInUse /\ ~Provided(inp.line.password) /\ base.SASL.Password = "")

\* the command line with every answer typed at a prompt given as the flag
AsFlags ==
    [inp.line EXCEPT
       !.server = IF Has("prompt Bootstrap servers") THEN Set(inp.ans.servers) ELSE @,
       !.version = IF Has("prompt Kafka version") THEN Set(inp.ans.version) ELSE @,
       !.sasl = IF Has("prompt Use SASL") /\ inp.ans.sasl THEN Set("true") ELSE @,
       !.algorithm = IF Has("prompt SASL Algorithm") THEN Set(inp.ans.algorithm) ELSE @,
       !.username = IF Has("prompt User") THEN Set(inp.ans.user) ELSE @,
       !.password = IF Has("prompt Password") THEN Set(inp.ans.password) ELSE @]

\* C19: after a successful invocation, not quiet, each value typed at a prompt
\* is in the stored context, and the store is what the same invocation with
\* the typed values given as flags leaves.
C19_PromptedValuesTakeEffect ==
    (Succeeded /\ ~inp.line.quiet) =>
      /\ Has("prompt Bootstrap servers") =>
             config.Contexts[out.name].BootstrapServers = Split(inp.ans.servers, ",")
      /\ Has("prompt Kafka version") =>
             config.Contexts[out.name].KafkaVersion = Kept(inp.ans.version)
      /\ (Has("prompt Use SASL") /\ inp.ans.sasl) => config.Contexts[out.name].UseSASL
      /\ Has("prompt SASL Algorithm") =>
             config.Contexts[out.name].SASL.Algorithm = inp.ans.algorithm
      /\ Has("prompt User") => config.Contexts[out.name].SASL.Username = inp.ans.user
      /\ Has("prompt Password") =>
             config.Contexts[out.name].SASL.Password = inp.ans.password
      /\ \E r \in {NewCmdConfigSetContext(pre, AsFlags, inp.up, cluster, inp.ans)} :
             r.err = NoErr /\ r.config = config

\* C20: in quiet mode no address is dialed during validation, and the
\* invocation ends with the same error and store whichever of its addresses
\* answer.
C20_ProbeOnlyInteractive ==
    (pc = "done" /\ inp.line.quiet) =>
      /\ ~Dialed
      /\ \A up \in Dials(inp.line) :
             \E r \in {NewCmdConfigSetContext(pre, inp.line, up, cluster, inp.ans)} :
                 r.err = out.err /\ r.config = config

====
